---------------------------- MODULE Spec2Model ----------------------------
(***************************************************************************)
(* The message-send / streaming-response pipeline of the chat backend:     *)
(* the POST /chats/:id/messages handler of routes/chats.ts and the         *)
(* createAIStream helper of openai-stream.ts, over the two SQLite tables.  *)
(*                                                                         *)
(* JavaScript runs every handler and every callback to completion, so one  *)
(* action is one synchronous stretch of code: the whole POST handler up to *)
(* the first await of createAIStream, and then each resumption of the      *)
(* async function (the create call resolving or rejecting, one chunk of    *)
(* the provider's stream, its exhaustion, its failure), callbacks included.*)
(*                                                                         *)
(* Beside it: the other handlers of routes/chats.ts (create, list, read,   *)
(* retitle and delete a conversation, read its messages), a client that    *)
(* closes the connection of a stream, and the MessageInput component of    *)
(* the browser with the streamingMessage of App.                           *)
(***************************************************************************)
EXTENDS Integers, Sequences, FiniteSets, TLC

VARIABLES
    conversations,  \* table conversations: id -> [title, created_at, updated_at]
    messages,       \* table messages: id -> [conversation_id, role, content, status, error_message, created_at]
    clock,          \* the last value new Date() returned
    nextId,         \* the next identifier uuidv4() hands out
    req,            \* per request: the handler's locals (conversationId, trimmedContent, result)
    res,            \* per request: the express response object
    ai,             \* per request: the closure of createAIStream
    provider,       \* per request: what the generation service and the storage did (history)
    faults,         \* the number of storage statements that have thrown
    gone,           \* the identifiers of the conversations that were deleted
    api,            \* the answers given to the requests on a conversation
    browser,        \* the state of the React components App and MessageInput
    reverseUnordered \* whether this build of SQLite returns rows of equal sort key newest first

vars == <<conversations, messages, clock, nextId, req, res, ai, provider, faults, gone, api,
          browser, reverseUnordered>>

---------------------------------------------------------------------------
(* Bounds of the model *)

\* the chunks the provider's streams deliver in a run, all requests together
MaxChunks == 2
\* the storage statements that throw in a run
MaxStorageFailures == 2
\* the conversations created in a run
MaxConversations == 1

(* Program constants *)

MaxContentLength == 10000

Requests == {1, 2}

---------------------------------------------------------------------------
(* Text.  A string is a sequence of runs [ch, n]: n >= 1 copies of the     *)
(* character ch, adjacent runs of different characters.  " " stands for    *)
(* the whitespace characters String.prototype.trim removes.                *)

Run(c, k) == [ch |-> c, n |-> k]
Str(c, k) == IF k = 0 THEN <<>> ELSE <<Run(c, k)>>
EmptyText == <<>>

RECURSIVE TextLen(_)
TextLen(t) == IF t = <<>> THEN 0 ELSE Head(t).n + TextLen(Tail(t))

\* s + t
Concat(s, t) ==
    IF s = <<>> THEN t
    ELSE IF t = <<>> THEN s
    ELSE IF s[Len(s)].ch = t[1].ch
         THEN SubSeq(s, 1, Len(s) - 1)
              \o <<Run(t[1].ch, s[Len(s)].n + t[1].n)>>
              \o Tail(t)
         ELSE s \o t

RECURSIVE ConcatAll(_)
ConcatAll(fs) == IF fs = <<>> THEN EmptyText ELSE Concat(Head(fs), ConcatAll(Tail(fs)))

IsWhitespace(r) == r.ch = " "

RECURSIVE TrimStart(_)
TrimStart(t) ==
    IF t # <<>> /\ IsWhitespace(Head(t)) THEN TrimStart(Tail(t)) ELSE t

RECURSIVE TrimEnd(_)
TrimEnd(t) ==
    IF t # <<>> /\ IsWhitespace(t[Len(t)])
    THEN TrimEnd(SubSeq(t, 1, Len(t) - 1))
    ELSE t

\* content.trim()
Trim(t) == TrimEnd(TrimStart(t))

---------------------------------------------------------------------------
(* req.body.content: absent, a value that is no string, or a string.       *)

Undefined == [type |-> "undefined", text |-> EmptyText]
NotAString == [type |-> "number", text |-> EmptyText]
JsString(t) == [type |-> "string", text |-> t]

\* The bodies the handler is studied on: no content, a content that is no
\* string, and the strings made of l whitespace characters, n other
\* characters and t whitespace characters, n around the maximum; one string
\* with whitespace inside.
BodyLengths == {0, 1, MaxContentLength - 1, MaxContentLength, MaxContentLength + 1}
BodyContents ==
    {Undefined, NotAString}
    \cup {JsString(Concat(Str(" ", l), Concat(Str("x", n), Str(" ", t)))) :
            l \in 0..1, n \in BodyLengths, t \in 0..1}
    \cup {JsString(Str("x", 1) \o Str(" ", 1) \o Str("x", MaxContentLength - 1))}

\* The bodies of the sends that stream beside each other
OrdinaryBodies == {Undefined, NotAString, JsString(Str(" ", 2)),
                   JsString(Str(" ", 1) \o Str("x", 1) \o Str(" ", 1)),
                   JsString(Str("x", MaxContentLength + 1))}

\* !content || typeof content !== 'string'
Falsy(content) == content.type = "undefined"
                  \/ (content.type = "string" /\ content.text = EmptyText)

\* the validation with the length test off by one (> 10001)
ValidateLenient(content) ==
    IF Falsy(content) \/ content.type # "string"
    THEN "Message content is required"
    ELSE IF TextLen(Trim(content.text)) = 0
    THEN "Message content cannot be empty"
    ELSE IF TextLen(Trim(content.text)) > MaxContentLength + 1
    THEN "Message too long (max 10000 characters)"
    ELSE "ok"

\* Step 1 of the handler: the error of the 400 answer, or "ok"
Validate(content) ==
    IF Falsy(content) \/ content.type # "string"
    THEN "Message content is required"
    ELSE IF TextLen(Trim(content.text)) = 0
    THEN "Message content cannot be empty"
    ELSE IF TextLen(Trim(content.text)) > MaxContentLength
    THEN "Message too long (max 10000 characters)"
    ELSE "ok"

---------------------------------------------------------------------------
(* The two tables.  A table is a function from the identifiers of its rows *)
(* to the rows; db is the pair a transaction works on.                     *)

Db(convs, msgs) == [conversations |-> convs, messages |-> msgs]

\* an INSERT that closes the placeholders the conversation still has pending
InsertMessageClosingPending(msgs, id, conversationId, role, content, status, now) ==
    [i \in DOMAIN msgs \cup {id} |->
        IF i = id
        THEN [conversation_id |-> conversationId, role |-> role, content |-> content,
              status |-> status, error_message |-> "null", created_at |-> now]
        ELSE IF msgs[i].conversation_id = conversationId /\ msgs[i].status = "sending"
        THEN [msgs[i] EXCEPT !.status = "failed", !.error_message = "superseded"]
        ELSE msgs[i]]

\* INSERT INTO messages (id, conversation_id, role, content, status, created_at)
\* error_message is not given and stays NULL
InsertMessage(msgs, id, conversationId, role, content, status, now) ==
    [i \in DOMAIN msgs \cup {id} |->
        IF i = id
        THEN [conversation_id |-> conversationId, role |-> role, content |-> content,
              status |-> status, error_message |-> "null", created_at |-> now]
        ELSE msgs[i]]

\* UPDATE conversations SET updated_at = ? WHERE id = ?
TouchConversation(convs, id, now) ==
    [c \in DOMAIN convs |-> IF c = id THEN [convs[c] EXCEPT !.updated_at = now] ELSE convs[c]]

\* The rows of SELECT ... FROM messages WHERE conversation_id = ? AND id != ?
HistoryIds(msgs, conversationId, exceptId) ==
    {i \in DOMAIN msgs : msgs[i].conversation_id = conversationId /\ i # exceptId}

\* ORDER BY created_at ASC: every order of the rows that is ascending in
\* created_at.  SQL leaves the order of rows with equal keys open.
OrdersByCreatedAt(msgs, ids) ==
    {o \in [1..Cardinality(ids) -> ids] :
        /\ \A i, j \in 1..Cardinality(ids) : i # j => o[i] # o[j]
        /\ \A i, j \in 1..Cardinality(ids) :
              i < j => msgs[o[i]].created_at <= msgs[o[j]].created_at}

\* historyRows.map(row => ({role, content}))
HistoryOf(msgs, order) ==
    [k \in 1..Len(order) |-> [role |-> msgs[order[k]].role, content |-> msgs[order[k]].content]]

\* the handler without its existence check
ConversationExistsUnchecked(convs, id) == TRUE

\* SELECT id FROM conversations WHERE id = ? finds a row
ConversationExists(convs, id) == id \in DOMAIN convs

TxSteps == <<"insertUser", "insertAssistant", "touch", "history">>
StorageFailures == {"none", "lookup"} \cup {TxSteps[k] : k \in 1..Len(TxSteps)}

\* The body of the setup transaction, run up to the statement that throws
\* (failAt), or to its end: what it has written and what it returns.
SetupBody(db, conversationId, trimmedContent, now, userMessageId, assistantMessageId, failAt, order) ==
    LET m1 == InsertMessage(db.messages, userMessageId, conversationId, "user",
                            trimmedContent, "sent", now)
        m2 == InsertMessage(m1, assistantMessageId, conversationId, "assistant",
                            EmptyText, "sending", now)
        c3 == TouchConversation(db.conversations, conversationId, now)
    IN  IF failAt = "insertUser"
        THEN [ok |-> FALSE, db |-> db, history |-> <<>>]
        ELSE IF failAt = "insertAssistant"
        THEN [ok |-> FALSE, db |-> Db(db.conversations, m1), history |-> <<>>]
        ELSE IF failAt = "touch"
        THEN [ok |-> FALSE, db |-> Db(db.conversations, m2), history |-> <<>>]
        ELSE IF failAt = "history"
        THEN [ok |-> FALSE, db |-> Db(c3, m2), history |-> <<>>]
        ELSE [ok |-> TRUE, db |-> Db(c3, m2), history |-> HistoryOf(m2, order)]

\* the statements run outside a transaction: what was written stays
TransactionNoRollback(before, attempt) == attempt

\* db.transaction(fn)(): commits what fn wrote when fn returns, rolls it
\* back and rethrows when fn throws
Transaction(before, attempt) ==
    IF attempt.ok THEN attempt ELSE [attempt EXCEPT !.db = before]

---------------------------------------------------------------------------
(* The response object of express.                                         *)

NewResponse == [statusCode |-> 200, json |-> "", sseHeaders |-> FALSE,
                events |-> <<>>, ended |-> FALSE, writeAfterEnd |-> FALSE,
                closed |-> FALSE, lost |-> 0]

\* res.status(code).json({error})
SendJson(rs, code, error) ==
    IF rs.ended THEN [rs EXCEPT !.writeAfterEnd = TRUE]
    ELSE [rs EXCEPT !.statusCode = code, !.json = error, !.ended = TRUE]

\* res.setHeader('Content-Type', 'text/event-stream') and the two others
SetSseHeaders(rs) == [rs EXCEPT !.sseHeaders = TRUE]

\* res.write(`event: ...\n`); res.write(`data: ${JSON.stringify(...)}\n\n`)
\* A write after res.end() puts nothing on the wire; a write on a connection
\* the client has closed is accepted and its bytes are dropped.
WriteEvent(rs, ev) ==
    IF rs.ended THEN [rs EXCEPT !.writeAfterEnd = TRUE]
    ELSE IF rs.closed THEN [rs EXCEPT !.lost = @ + 1]
    ELSE [rs EXCEPT !.events = Append(@, ev)]

\* res.end()
End(rs) == [rs EXCEPT !.ended = TRUE]

\* res.headersSent
HeadersSent(rs) == rs.events # <<>> \/ rs.ended

ChunkEvent(text) == [event |-> "chunk", content |-> text]
DoneEvent(id, text) == [event |-> "done", messageId |-> id, content |-> text]
ErrorEvent(msg) == [event |-> "error", error |-> msg]

---------------------------------------------------------------------------
(* Errors.  What the catch block of createAIStream reads of a thrown value *)
(* is whether it is an Error and which of the three marker substrings its  *)
(* message includes.                                                       *)

Markers == {"API key", "rate limit", "insufficient_quota"}

ThrownError(marks) == [isError |-> TRUE, includes |-> marks]
\* a thrown value that is no Error
ThrownValue == [isError |-> FALSE, includes |-> Markers]
\* nothing was thrown
NoError == [isError |-> FALSE, includes |-> {}]
\* new Error('No response from AI')
NoResponseError == ThrownError({})
\* what a failing statement of better-sqlite3 throws
SqliteError == ThrownError({})

ProviderErrors == {ThrownError(m) : m \in SUBSET Markers} \cup {ThrownValue}

\* the failures of the sends that stream beside each other
OrdinaryErrors == {ThrownError({"rate limit"}), ThrownError({})}

MsgConfiguration == "AI service configuration error. Please contact support."
MsgBusy == "AI service is busy. Please try again in a moment."
MsgQuota == "AI service quota exceeded. Please contact support."
MsgUnavailable == "AI service temporarily unavailable. Please try again."

\* error instanceof Error ? error : new Error('Unknown error')
AsError(e) == IF e.isError THEN e ELSE ThrownError({})

\* the chain with the quota rule tried first
TranslateQuotaFirst(err) ==
    IF "insufficient_quota" \in err.includes THEN MsgQuota
    ELSE IF "API key" \in err.includes THEN MsgConfiguration
    ELSE IF "rate limit" \in err.includes THEN MsgBusy
    ELSE MsgUnavailable

\* the if/else chain on err.message.includes(...)
Translate(err) ==
    IF "API key" \in err.includes THEN MsgConfiguration
    ELSE IF "rate limit" \in err.includes THEN MsgBusy
    ELSE IF "insufficient_quota" \in err.includes THEN MsgQuota
    ELSE MsgUnavailable

---------------------------------------------------------------------------
(* The callbacks the handler passes to createAIStream.  Each returns what  *)
(* it left behind: the messages table, the response and whether it threw.  *)

\* the UPDATE keyed by the conversation instead of the row
UpdateFailedAnyRole(msgs, id, errorMessage) ==
    [i \in DOMAIN msgs |->
        IF msgs[i].conversation_id = msgs[id].conversation_id
        THEN [msgs[i] EXCEPT !.status = "failed", !.error_message = errorMessage]
        ELSE msgs[i]]

\* the UPDATE that sets the status and leaves the reason out
UpdateFailedStatusOnly(msgs, id, errorMessage) ==
    [i \in DOMAIN msgs |->
        IF i = id THEN [msgs[i] EXCEPT !.status = "failed"] ELSE msgs[i]]

\* UPDATE messages SET status = ?, error_message = ? WHERE id = ?
UpdateFailed(msgs, id, errorMessage) ==
    [i \in DOMAIN msgs |->
        IF i = id THEN [msgs[i] EXCEPT !.status = "failed", !.error_message = errorMessage]
        ELSE msgs[i]]

\* the UPDATE keyed by the conversation instead of the row
UpdateSentAnyPlaceholder(msgs, id, fullText) ==
    [i \in DOMAIN msgs |->
        IF msgs[i].conversation_id = msgs[id].conversation_id /\ msgs[i].role = "assistant"
        THEN [msgs[i] EXCEPT !.content = fullText, !.status = "sent"]
        ELSE msgs[i]]

\* UPDATE messages SET content = ?, status = ? WHERE id = ?
UpdateSent(msgs, id, fullText) ==
    [i \in DOMAIN msgs |->
        IF i = id THEN [msgs[i] EXCEPT !.content = fullText, !.status = "sent"]
        ELSE msgs[i]]

\* onChunk
RouteOnChunk(rs, chunk) == WriteEvent(rs, ChunkEvent(chunk))

\* an onError that swallows the failure of its UPDATE and writes the event
RouteOnErrorSwallowing(msgs, rs, assistantMessageId, message, updateFails) ==
    [threw |-> FALSE,
     messages |-> IF updateFails THEN msgs
                  ELSE UpdateFailed(msgs, assistantMessageId, message),
     res |-> End(WriteEvent(rs, ErrorEvent(message)))]

\* onError
RouteOnError(msgs, rs, assistantMessageId, message, updateFails) ==
    IF updateFails
    THEN [threw |-> TRUE, messages |-> msgs, res |-> rs]
    ELSE [threw |-> FALSE,
          messages |-> UpdateFailed(msgs, assistantMessageId, message),
          res |-> End(WriteEvent(rs, ErrorEvent(message)))]

\* an onDone that records the reply and writes nothing to the stream
RouteOnDoneSilent(msgs, rs, assistantMessageId, fullText, updateFails) ==
    IF updateFails
    THEN [threw |-> TRUE, messages |-> msgs, res |-> rs]
    ELSE [threw |-> FALSE,
          messages |-> UpdateSent(msgs, assistantMessageId, fullText),
          res |-> End(rs)]

\* an onDone that skips the finalization once the client has gone
RouteOnDoneUnlessClosed(msgs, rs, assistantMessageId, fullText, updateFails) ==
    IF rs.closed
    THEN [threw |-> FALSE, messages |-> msgs, res |-> End(rs)]
    ELSE IF updateFails
    THEN [threw |-> TRUE, messages |-> msgs, res |-> rs]
    ELSE [threw |-> FALSE,
          messages |-> UpdateSent(msgs, assistantMessageId, fullText),
          res |-> End(WriteEvent(rs, DoneEvent(assistantMessageId, fullText)))]

\* onDone
RouteOnDone(msgs, rs, assistantMessageId, fullText, updateFails) ==
    IF updateFails
    THEN [threw |-> TRUE, messages |-> msgs, res |-> rs]
    ELSE [threw |-> FALSE,
          messages |-> UpdateSent(msgs, assistantMessageId, fullText),
          res |-> End(WriteEvent(rs, DoneEvent(assistantMessageId, fullText)))]

---------------------------------------------------------------------------
(* createAIStream.                                                         *)

DefaultInstructions == Str("i", 1)

\* the messages array: system, the history, the user message
BuildMessages(instructions, conversationHistory, userMessage) ==
    <<[role |-> "system", content |-> instructions]>>
    \o conversationHistory
    \o <<[role |-> "user", content |-> userMessage]>>

NotCalled == [pc |-> "none", cancelled |-> FALSE, fullText |-> EmptyText, messages |-> <<>>]

\* chunk.choices[0]?.delta?.content of one chunk of the provider's stream
Deltas == {[defined |-> FALSE, text |-> EmptyText],
           [defined |-> TRUE, text |-> EmptyText],
           [defined |-> TRUE, text |-> Str("a", 1)],
           [defined |-> TRUE, text |-> Str("b", 1)]}

\* the calls createAIStream makes of its three callbacks
OnChunkCall(text) == [callback |-> "onChunk", arg |-> text]
OnErrorCall(message) == [callback |-> "onError", arg |-> message]
OnDoneCall(fullText) == [callback |-> "onDone", arg |-> fullText]

\* if (content)
Truthy(delta) == delta.defined /\ delta.text # EmptyText

\* the catch block without its if (cancelled) return
CatchBlockAfterCancel(msgs, rs, assistantMessageId, cancelled, error, errorUpdateFails) ==
    LET out == RouteOnError(msgs, rs, assistantMessageId,
                            Translate(AsError(error)), errorUpdateFails)
    IN  [pc |-> IF out.threw THEN "rejected" ELSE "returned",
         messages |-> out.messages, res |-> out.res,
         updateFailed |-> IF errorUpdateFails THEN 1 ELSE 0,
         calls |-> <<OnErrorCall(Translate(AsError(error)))>>]

\* The catch block: what the async function leaves behind and how it ends
\* ("returned", or "rejected" when onError throws out of the catch block).
CatchBlock(msgs, rs, assistantMessageId, cancelled, error, errorUpdateFails) ==
    IF cancelled
    THEN [pc |-> "returned", messages |-> msgs, res |-> rs, updateFailed |-> 0,
          calls |-> <<>>]
    ELSE LET out == RouteOnError(msgs, rs, assistantMessageId,
                                 Translate(AsError(error)), errorUpdateFails)
         IN  [pc |-> IF out.threw THEN "rejected" ELSE "returned",
              messages |-> out.messages, res |-> out.res,
              updateFailed |-> IF errorUpdateFails THEN 1 ELSE 0,
              calls |-> <<OnErrorCall(Translate(AsError(error)))>>]

\* After the for-await loop: if (!cancelled) { if (!fullText) throw ...; onDone(fullText) }
AfterLoop(msgs, rs, assistantMessageId, cancelled, fullText, doneUpdateFails, errorUpdateFails) ==
    IF cancelled
    THEN [pc |-> "returned", messages |-> msgs, res |-> rs, updateFailed |-> 0,
          calls |-> <<>>]
    ELSE IF fullText = EmptyText
    THEN CatchBlock(msgs, rs, assistantMessageId, cancelled, NoResponseError, errorUpdateFails)
    ELSE LET out == RouteOnDone(msgs, rs, assistantMessageId, fullText, doneUpdateFails)
         IN  IF out.threw
             THEN [CatchBlock(out.messages, out.res, assistantMessageId, cancelled,
                              SqliteError, errorUpdateFails)
                    EXCEPT !.updateFailed = @ + 1,
                           !.calls = <<OnDoneCall(fullText)>> \o @]
             ELSE [pc |-> "returned", messages |-> out.messages, res |-> out.res,
                   updateFailed |-> 0, calls |-> <<OnDoneCall(fullText)>>]

---------------------------------------------------------------------------
(* The handler of POST /chats/:id/messages, from the setup transaction on. *)

\* the catch block of the handler
HandlerCatch(rs) ==
    IF ~HeadersSent(rs)
    THEN SendJson(rs, 500, "Failed to process message")
    ELSE End(WriteEvent(rs, ErrorEvent("Internal server error")))

\* the orders the history SELECT of the transaction can return its rows in
SetupOrders(msgs, conversationId, trimmedContent, now, userMessageId, assistantMessageId) ==
    LET m2 == InsertMessage(
                  InsertMessage(msgs, userMessageId, conversationId, "user",
                                trimmedContent, "sent", now),
                  assistantMessageId, conversationId, "assistant", EmptyText, "sending", now)
    IN  OrdersByCreatedAt(m2, HistoryIds(m2, conversationId, assistantMessageId))

\* Steps 3 to 5: the transaction, then the SSE headers, then the call of
\* createAIStream (started); a throw of the transaction goes to the catch block.
SetupThenStream(db, rs, conversationId, trimmedContent, now, userMessageId, assistantMessageId, failAt, order) ==
    LET tx == Transaction(db, SetupBody(db, conversationId, trimmedContent, now,
                                        userMessageId, assistantMessageId, failAt, order))
    IN  IF tx.ok
        THEN [db |-> tx.db, res |-> SetSseHeaders(rs), started |-> TRUE,
              history |-> tx.history]
        ELSE [db |-> tx.db, res |-> HandlerCatch(rs), started |-> FALSE,
              history |-> <<>>]

---------------------------------------------------------------------------
(* The requests on a conversation: PATCH, DELETE and GET messages.         *)

\* what stmt.run() returns: an object { changes, lastInsertRowid }
RunInfo(n) == [changes |-> n, lastInsertRowid |-> [type |-> "number"]]

\* !row, of the object stmt.run() returned: an object is never falsy
NoRow(info) == FALSE

\* UPDATE conversations SET title = ?, updated_at = ? WHERE id = ?
UpdateTitle(convs, id, title, now) ==
    [c \in DOMAIN convs |->
        IF c = id THEN [convs[c] EXCEPT !.title = title, !.updated_at = now]
        ELSE convs[c]]

\* the messages table drops the rows of a deleted conversation with it
\* (conversation_id REFERENCES conversations ON DELETE CASCADE)
OnDeleteCascade(msgs, id) ==
    [i \in {j \in DOMAIN msgs : msgs[j].conversation_id # id} |-> msgs[i]]

\* the statement on a table whose rows do not follow their conversation
DeleteStatementLeavingRows(db, id) ==
    Db([c \in DOMAIN db.conversations \ {id} |-> db.conversations[c]], db.messages)

\* DELETE FROM conversations WHERE id = ?
DeleteStatement(db, id) ==
    Db([c \in DOMAIN db.conversations \ {id} |-> db.conversations[c]],
       OnDeleteCascade(db.messages, id))

\* the rows before position k of an ascending sort: created_at first.  SQL
\* leaves the order of rows of equal created_at to the engine: a build
\* returns them in the order of the INSERTs (the order of the identifiers
\* here) or, as under PRAGMA reverse_unordered_selects, in the reverse one.
Before(msgs, i, j) ==
    \/ msgs[i].created_at < msgs[j].created_at
    \/ /\ msgs[i].created_at = msgs[j].created_at
       /\ IF reverseUnordered THEN i > j ELSE i < j

\* the read that shows the text a send has accumulated so far
SelectMessagesLive(msgs, conversationId) ==
    LET ids == {i \in DOMAIN msgs : msgs[i].conversation_id = conversationId}
        order == CHOOSE o \in [1..Cardinality(ids) -> ids] :
                    \A k, l \in 1..Cardinality(ids) : k < l => Before(msgs, o[k], o[l])
    IN  [k \in 1..Cardinality(ids) |->
            [id |-> order[k],
             row |-> IF \E r \in Requests : req[r].assistantMessageId = order[k]
                     THEN [msgs[order[k]] EXCEPT !.content =
                             ai[CHOOSE r \in Requests :
                                  req[r].assistantMessageId = order[k]].fullText]
                     ELSE msgs[order[k]]]]

\* SELECT * FROM messages WHERE conversation_id = ? ORDER BY created_at ASC
SelectMessages(msgs, conversationId) ==
    LET ids == {i \in DOMAIN msgs : msgs[i].conversation_id = conversationId}
        order == CHOOSE o \in [1..Cardinality(ids) -> ids] :
                    \A k, l \in 1..Cardinality(ids) : k < l => Before(msgs, o[k], o[l])
    IN  [k \in 1..Cardinality(ids) |-> [id |-> order[k], row |-> msgs[order[k]]]]

\* res.json({ id: row.lastInsertRowid }), or the 404
ReplyOf(op, id, existed, info) ==
    IF NoRow(info)
    THEN [op |-> op, id |-> id, existed |-> existed, statusCode |-> 404,
          body |-> [type |-> "error"]]
    ELSE [op |-> op, id |-> id, existed |-> existed, statusCode |-> 200,
          body |-> info.lastInsertRowid]

NoReply == [op |-> "none", id |-> 0, existed |-> FALSE, statusCode |-> 0,
            body |-> [type |-> "none"]]
NoRead == [id |-> 0, rows |-> <<>>, issued |-> 0, finalized |-> 0, gone |-> {}]

---------------------------------------------------------------------------
(* State.                                                                  *)

NoRequest == [state |-> "idle", conversationId |-> 0, content |-> Undefined,
              trimmedContent |-> EmptyText, userMessageId |-> 0, assistantMessageId |-> 0]

NoHistory == [chunks |-> 0, yielded |-> <<>>, ending |-> "pending", updateFailed |-> FALSE,
              storage |-> "none", error |-> NoError, calls |-> <<>>]

\* MessageInput: message, isSubmitting, error, lastFailedMessage; App:
\* streamingMessage.  send is the request the component is subscribed to.
NoBrowser == [send |-> 0, seen |-> 0, isSubmitting |-> FALSE, error |-> FALSE,
              lastFailedMessage |-> FALSE, streamingMessage |-> EmptyText]

Boot ==
    /\ conversations = <<>>
    /\ messages = <<>>
    /\ clock = 0
    /\ nextId = 1
    /\ req = [r \in Requests |-> NoRequest]
    /\ res = [r \in Requests |-> NewResponse]
    /\ ai = [r \in Requests |-> NotCalled]
    /\ provider = [r \in Requests |-> NoHistory]
    /\ faults = 0
    /\ gone = {}
    /\ api = [reply |-> NoReply, read |-> NoRead]
    /\ browser = NoBrowser

Init == Boot /\ reverseUnordered = FALSE

\* the store under either build of the engine
InitStore == Boot /\ reverseUnordered \in BOOLEAN

\* new Date(): the readings a handler can get.  Handlers run one after the
\* other and none reads the clock earlier than the one before; two can read
\* the same millisecond.  The two rows of one send share one reading.
Now == {clock, clock + 1}

\* a storage statement may throw
MayFail == IF faults < MaxStorageFailures THEN BOOLEAN ELSE {FALSE}
BoolToNat(b) == IF b THEN 1 ELSE 0

DefaultTitle == Str("New Conversation", 1)
BodyTitles == {Undefined, JsString(EmptyText), JsString(Str("t", 1))}
OrdinaryTitles == {Undefined}
\* req.body.title of PATCH
PatchTitles == {Str("t", 1)}

\* req.body.title || 'New Conversation'
TitleOf(title) == IF Falsy(title) THEN DefaultTitle ELSE title.text

\* uuidv4() of POST /chats: an identifier no conversation has had
NewConversationId == Cardinality(DOMAIN conversations \cup gone) + 1

\* POST /chats.  Its reading of the clock is taken later than every reading
\* before it: the timestamps of a new conversation are compared with no
\* row of a send.
CreateConversation(titles) ==
    /\ Cardinality(DOMAIN conversations \cup gone) < MaxConversations
    /\ \E title \in titles, now \in {clock + 1} :
          /\ conversations' =
                [c \in DOMAIN conversations \cup {NewConversationId} |->
                    IF c = NewConversationId
                    THEN [title |-> TitleOf(title), created_at |-> now, updated_at |-> now]
                    ELSE conversations[c]]
          /\ clock' = now
    /\ UNCHANGED <<messages, nextId, req, res, ai, provider, faults, gone, api, browser, reverseUnordered>>

\* the identifiers a request can name: a conversation, or none (0)
Targets == DOMAIN conversations \cup {0}

\* PATCH /chats/:id.  Its reading of the clock is taken in the millisecond
\* of the reading before it, so that renaming again and again leaves the
\* state as it is: updated_at of a conversation is compared with no row of a
\* send.
PatchConversation(titles) ==
    /\ \E id \in Targets, title \in titles, now \in {clock} :
          LET existed == id \in DOMAIN conversations
              info == RunInfo(IF existed THEN 1 ELSE 0)
          IN  /\ conversations' = UpdateTitle(conversations, id, title, now)
              /\ clock' = now
              /\ api' = [api EXCEPT !.reply = ReplyOf("PATCH", id, existed, info)]
    /\ UNCHANGED <<messages, nextId, req, res, ai, provider, faults, gone, browser, reverseUnordered>>

\* DELETE /chats/:id
DeleteConversation ==
    /\ \E id \in Targets :
          LET existed == id \in DOMAIN conversations
              info == RunInfo(IF existed THEN 1 ELSE 0)
              out == DeleteStatement(Db(conversations, messages), id)
          IN  /\ conversations' = out.conversations
              /\ messages' = out.messages
              /\ gone' = IF existed THEN gone \cup {id} ELSE gone
              /\ api' = [api EXCEPT !.reply = ReplyOf("DELETE", id, existed, info)]
    /\ UNCHANGED <<clock, nextId, req, res, ai, provider, faults, browser, reverseUnordered>>

\* SELECT * FROM conversations ORDER BY updated_at DESC; rows of equal
\* updated_at come in the order the engine leaves them in
SelectConversations(convs) ==
    LET n == Cardinality(DOMAIN convs)
    IN  CHOOSE o \in [1..n -> DOMAIN convs] :
            \A k, l \in 1..n : k < l =>
                \/ convs[o[k]].updated_at > convs[o[l]].updated_at
                \/ /\ convs[o[k]].updated_at = convs[o[l]].updated_at
                   /\ IF reverseUnordered THEN o[k] > o[l] ELSE o[k] < o[l]

\* GET /chats
ListConversations ==
    /\ api' = [api EXCEPT !.reply =
                  [op |-> "LIST", id |-> 0, existed |-> FALSE, statusCode |-> 200,
                   body |-> [type |-> "rows", rows |-> SelectConversations(conversations)]]]
    /\ UNCHANGED <<conversations, messages, clock, nextId, req, res, ai, provider, faults, gone, browser, reverseUnordered>>

\* GET /chats/:id
GetConversation ==
    /\ \E id \in Targets :
          LET existed == id \in DOMAIN conversations
          IN  api' = [api EXCEPT !.reply =
                        IF ~existed
                        THEN [op |-> "GET", id |-> id, existed |-> existed, statusCode |-> 404,
                              body |-> [type |-> "error"]]
                        ELSE [op |-> "GET", id |-> id, existed |-> existed, statusCode |-> 200,
                              body |-> [type |-> "row", title |-> conversations[id].title]]]
    /\ UNCHANGED <<conversations, messages, clock, nextId, req, res, ai, provider, faults, gone, browser, reverseUnordered>>

\* the sends issued so far, and those that have run their finalization
Issued == Cardinality({r \in Requests : req[r].state # "idle"})
Finalized == Cardinality({r \in Requests : ai[r].pc \in {"returned", "rejected"}})

\* GET /chats/:id/messages
GetMessages ==
    /\ \E id \in DOMAIN conversations :
          api' = [api EXCEPT !.read = [id |-> id, rows |-> SelectMessages(messages, id),
                                       issued |-> Issued, finalized |-> Finalized,
                                       gone |-> gone]]
    /\ UNCHANGED <<conversations, messages, clock, nextId, req, res, ai, provider, faults, gone, browser, reverseUnordered>>

\* the handler answers with res.status(code).json({error}) and returns
Answer(r, conversationId, content, code, error, failure) ==
    /\ req' = [req EXCEPT ![r] = [@ EXCEPT !.state = "answered",
                                           !.conversationId = conversationId,
                                           !.content = content]]
    /\ res' = [res EXCEPT ![r] = SendJson(@, code, error)]
    /\ provider' = [provider EXCEPT ![r].storage = failure]
    /\ faults' = faults + BoolToNat(failure # "none")
    /\ UNCHANGED <<conversations, messages, clock, nextId, ai, gone, api, browser, reverseUnordered>>

\* POST /chats/:id/messages, up to the first await of createAIStream
PostMessage(r, bodies) ==
    /\ req[r].state = "idle"
    /\ \A q \in Requests : q < r => req[q].state # "idle"
    /\ \E content \in bodies :
          IF Validate(content) # "ok"
          THEN Answer(r, req[r].conversationId, content, 400, Validate(content), "none")
          ELSE
          \E conversationId \in DOMAIN conversations \cup {0},
             failure \in {f \in StorageFailures : f = "none" \/ TRUE \in MayFail} :
          IF failure = "lookup"
          THEN Answer(r, conversationId, content, 500, "Failed to process message", failure)
          ELSE IF ~ConversationExists(conversations, conversationId)
          THEN Answer(r, conversationId, content, 404, "Conversation not found", "none")
          ELSE LET trimmedContent == Trim(content.text)
                   userMessageId == nextId
                   assistantMessageId == nextId + 1
               IN  \E now \in Now :
                   \E order \in SetupOrders(messages, conversationId, trimmedContent,
                                            now, userMessageId, assistantMessageId) :
                     LET out == SetupThenStream(Db(conversations, messages), res[r],
                                    conversationId, trimmedContent, now,
                                    userMessageId, assistantMessageId, failure, order)
                     IN  /\ conversations' = out.db.conversations
                         /\ messages' = out.db.messages
                         /\ nextId' = nextId + 2
                         /\ res' = [res EXCEPT ![r] = out.res]
                         /\ req' = [req EXCEPT ![r] =
                                [state |-> IF out.started THEN "streaming" ELSE "answered",
                                 conversationId |-> conversationId,
                                 content |-> content,
                                 trimmedContent |-> trimmedContent,
                                 userMessageId |-> userMessageId,
                                 assistantMessageId |-> assistantMessageId]]
                         /\ ai' = [ai EXCEPT ![r] =
                                IF out.started
                                THEN [pc |-> "awaiting", cancelled |-> FALSE,
                                      fullText |-> EmptyText,
                                      messages |-> BuildMessages(DefaultInstructions,
                                                      out.history, trimmedContent)]
                                ELSE @]
                         /\ provider' = [provider EXCEPT ![r].storage = failure]
                         /\ faults' = faults + BoolToNat(failure # "none")
                         /\ clock' = now
                         /\ UNCHANGED <<gone, api, browser, reverseUnordered>>


---------------------------------------------------------------------------
(* The async function of createAIStream, one action per resumption.        *)

\* the chunks delivered so far
RECURSIVE SumChunks(_)
SumChunks(rs) ==
    IF rs = {} THEN 0
    ELSE LET r == CHOOSE x \in rs : TRUE
         IN  provider[r].chunks + SumChunks(rs \ {r})
Chunks == SumChunks(Requests)

\* the async function ends: its callbacks have left out.messages and out.res
Settle(r, out, ending, error) ==
    /\ messages' = out.messages
    /\ res' = [res EXCEPT ![r] = out.res]
    /\ ai' = [ai EXCEPT ![r].pc = out.pc]
    /\ provider' = [provider EXCEPT ![r].ending = ending,
                                    ![r].updateFailed = @ \/ out.updateFailed > 0,
                                    ![r].error = error,
                                    ![r].calls = @ \o out.calls]
    /\ faults' = faults + out.updateFailed
    /\ UNCHANGED <<conversations, clock, nextId, req, gone, api, browser, reverseUnordered>>

\* await openai.chat.completions.create(...) resolves; if (cancelled) return
CreateResolves(r) ==
    /\ ai[r].pc = "awaiting"
    /\ ai' = [ai EXCEPT ![r].pc = IF ai[r].cancelled THEN "returned" ELSE "streaming",
                        ![r].fullText = EmptyText]
    /\ UNCHANGED <<conversations, messages, clock, nextId, req, res, provider, faults, gone, api, browser, reverseUnordered>>

\* await openai.chat.completions.create(...) rejects
CreateRejects(r, errors) ==
    /\ ai[r].pc = "awaiting"
    /\ \E error \in errors, errorUpdateFails \in MayFail :
          Settle(r, CatchBlock(messages, res[r], req[r].assistantMessageId,
                               ai[r].cancelled, error, errorUpdateFails),
                 "rejected", error)

\* one turn of the for-await loop
StreamChunk(r) ==
    /\ ai[r].pc = "streaming"
    /\ Chunks < MaxChunks
    /\ \E delta \in Deltas :
          /\ provider' = [provider EXCEPT
                ![r].chunks = @ + 1,
                ![r].yielded = IF Truthy(delta) THEN Append(@, delta.text) ELSE @,
                ![r].calls = IF Truthy(delta) /\ ~ai[r].cancelled
                             THEN Append(@, OnChunkCall(delta.text)) ELSE @]
          /\ IF ai[r].cancelled
             THEN \* break, and nothing is left to do after the loop
                  /\ ai' = [ai EXCEPT ![r].pc = "returned"]
                  /\ UNCHANGED res
             ELSE IF Truthy(delta)
             THEN /\ ai' = [ai EXCEPT ![r].fullText = Concat(@, delta.text)]
                  /\ res' = [res EXCEPT ![r] = RouteOnChunk(@, delta.text)]
             ELSE UNCHANGED <<ai, res>>
    /\ UNCHANGED <<conversations, messages, clock, nextId, req, faults, gone, api, browser, reverseUnordered>>

\* the provider's stream throws in the for-await loop
StreamThrows(r, errors) ==
    /\ ai[r].pc = "streaming"
    /\ \E error \in errors, errorUpdateFails \in MayFail :
          Settle(r, CatchBlock(messages, res[r], req[r].assistantMessageId,
                               ai[r].cancelled, error, errorUpdateFails),
                 "threw", error)

\* the provider's stream is exhausted
StreamEnds(r) ==
    /\ ai[r].pc = "streaming"
    /\ \E doneUpdateFails \in MayFail, errorUpdateFails \in MayFail :
          /\ faults + BoolToNat(doneUpdateFails) + BoolToNat(errorUpdateFails)
                <= MaxStorageFailures
          /\ Settle(r, AfterLoop(messages, res[r], req[r].assistantMessageId,
                                 ai[r].cancelled, ai[r].fullText,
                                 doneUpdateFails, errorUpdateFails),
                    "exhausted", NoError)

\* the caller invokes the handle createAIStream returned: cancelled = true
Cancel(r) ==
    /\ ai[r].pc # "none"
    /\ ai' = [ai EXCEPT ![r].cancelled = TRUE]
    /\ UNCHANGED <<conversations, messages, clock, nextId, req, res, provider, faults, gone, api, browser, reverseUnordered>>

\* a transport that passes the disconnect on as a cancellation
DisconnectCancelling(r) ==
    /\ req[r].state = "streaming"
    /\ ~res[r].ended /\ ~res[r].closed
    /\ res' = [res EXCEPT ![r].closed = TRUE]
    /\ ai' = [ai EXCEPT ![r].cancelled = TRUE]
    /\ UNCHANGED <<conversations, messages, clock, nextId, req, provider, faults, gone, api, browser, reverseUnordered>>

\* The client closes the connection of a streaming send.  The handler has
\* registered no listener for it and has dropped the handle createAIStream
\* returned: nothing of the server changes but the connection.
Disconnect(r) ==
    /\ req[r].state = "streaming"
    /\ ~res[r].ended /\ ~res[r].closed
    /\ res' = [res EXCEPT ![r].closed = TRUE]
    /\ UNCHANGED <<conversations, messages, clock, nextId, req, ai, provider, faults, gone, api, browser, reverseUnordered>>

Next ==
    \/ CreateConversation(OrdinaryTitles)
    \/ \E r \in Requests : PostMessage(r, OrdinaryBodies)
    \/ \E r \in Requests : CreateResolves(r)
    \/ \E r \in Requests : CreateRejects(r, OrdinaryErrors)
    \/ \E r \in Requests : StreamChunk(r)
    \/ \E r \in Requests : StreamThrows(r, OrdinaryErrors)
    \/ \E r \in Requests : StreamEnds(r)

\* Every send, from its request to the end of its stream, two at a time.
Spec == Init /\ [][Next]_vars

\* The synchronous part of the handler alone, on every body.
NextHandler ==
    \/ CreateConversation(BodyTitles)
    \/ PostMessage(1, BodyContents)

SpecHandler == Init /\ [][NextHandler]_vars

\* One invocation of createAIStream, on every failure of the provider, with
\* a caller that may invoke the cancel handle at any moment.
NextClient ==
    \/ CreateConversation(OrdinaryTitles)
    \/ PostMessage(1, OrdinaryBodies)
    \/ CreateResolves(1)
    \/ CreateRejects(1, ProviderErrors)
    \/ StreamChunk(1)
    \/ StreamThrows(1, ProviderErrors)
    \/ StreamEnds(1)
    \/ Cancel(1)

SpecClient == Init /\ [][NextClient]_vars

\* One send beside the requests that update, delete and read its
\* conversation.
NextStore ==
    \/ CreateConversation(OrdinaryTitles)
    \/ PatchConversation(PatchTitles)
    \/ DeleteConversation
    \/ GetMessages
    \/ PostMessage(1, {JsString(Str("x", 1))})
    \/ CreateResolves(1)
    \/ CreateRejects(1, {ThrownError({})})
    \/ StreamChunk(1)
    \/ StreamEnds(1)

SpecStore == InitStore /\ [][NextStore]_vars

\* One invocation of createAIStream with a caller that may invoke the cancel
\* handle and a client that may close the connection, each at any moment.
NextTransport ==
    \/ CreateConversation(OrdinaryTitles)
    \/ PostMessage(1, OrdinaryBodies)
    \/ CreateResolves(1)
    \/ CreateRejects(1, OrdinaryErrors)
    \/ StreamChunk(1)
    \/ StreamThrows(1, OrdinaryErrors)
    \/ StreamEnds(1)
    \/ Cancel(1)
    \/ Disconnect(1)

SpecTransport == Init /\ [][NextTransport]_vars

\* One send whose client may close the connection at any moment, with a
\* generation call that eventually completes or fails: the create call
\* resolves or rejects, and the stream, which yields finitely many chunks,
\* is exhausted or throws.
NextLive ==
    \/ CreateConversation(OrdinaryTitles)
    \/ PostMessage(1, OrdinaryBodies)
    \/ CreateResolves(1)
    \/ CreateRejects(1, OrdinaryErrors)
    \/ StreamChunk(1)
    \/ StreamThrows(1, OrdinaryErrors)
    \/ StreamEnds(1)
    \/ Disconnect(1)

SpecLive ==
    /\ Init /\ [][NextLive]_vars
    /\ WF_vars(CreateResolves(1) \/ CreateRejects(1, OrdinaryErrors))
    /\ WF_vars(StreamEnds(1) \/ StreamThrows(1, OrdinaryErrors))

\* The store an earlier send has left while its stream is still open: a
\* conversation, the user row and the placeholder, which is still sending.
EarlierSend ==
    /\ conversations = TouchConversation(
            [c \in {1} |-> [title |-> DefaultTitle, created_at |-> 1, updated_at |-> 1]], 1, 2)
    /\ messages = InsertMessage(
            InsertMessage(<<>>, 1, 1, "user", Str("x", 1), "sent", 2),
            2, 1, "assistant", EmptyText, "sending", 2)
    /\ clock = 2
    /\ nextId = 3
    /\ req = [r \in Requests |-> NoRequest]
    /\ res = [r \in Requests |-> NewResponse]
    /\ ai = [r \in Requests |-> NotCalled]
    /\ provider = [r \in Requests |-> NoHistory]
    /\ faults = 0
    /\ gone = {}
    /\ api = [reply |-> NoReply, read |-> NoRead]
    /\ browser = NoBrowser
    /\ reverseUnordered = FALSE

\* One send, on an empty store or beside the rows of an earlier send, and
\* the requests that create, list, read and retitle conversations and read
\* messages.
NextFrame ==
    \/ CreateConversation(OrdinaryTitles)
    \/ ListConversations
    \/ GetConversation
    \/ PatchConversation(PatchTitles)
    \/ GetMessages
    \/ PostMessage(1, {JsString(Str("x", 1))})
    \/ CreateResolves(1)
    \/ CreateRejects(1, {ThrownError({})})
    \/ StreamChunk(1)
    \/ StreamEnds(1)

SpecFrame == (Init \/ EarlierSend) /\ [][NextFrame]_vars

---------------------------------------------------------------------------
(* The browser: MessageInput and the streamingMessage of App.  The         *)
(* component subscribes to one send at a time; subscribeToSSE hands every  *)
(* event of the stream to the callback of its name, in the order written.  *)

\* submitMessage, from handleSubmit or from handleRetry: the input and the
\* Retry button are disabled while isSubmitting, and the component is shown
\* once a conversation is selected
SubmitMessage(r) ==
    /\ DOMAIN conversations # {}
    /\ ~browser.isSubmitting
    /\ browser.send < r /\ req[r].state = "idle"
    /\ \A q \in Requests : q < r => browser.send >= q /\ req[q].state # "idle"
    /\ browser' = [browser EXCEPT !.send = r, !.seen = 0,
                                  !.isSubmitting = TRUE, !.error = FALSE]
    /\ UNCHANGED <<conversations, messages, clock, nextId, req, res, ai, provider, faults, gone, api, reverseUnordered>>

\* the request of subscribeToSSE reaches the handler
Fetch(r, bodies) == browser.send = r /\ PostMessage(r, bodies)

\* onChunk / onDone / onError of submitMessage, and the onChunk and
\* onMessageSent App passes down
ReceiveEvent ==
    /\ browser.send # 0 /\ browser.isSubmitting
    /\ browser.seen < Len(res[browser.send].events)
    /\ LET ev == res[browser.send].events[browser.seen + 1]
       IN  browser' =
             IF ev.event = "chunk"
             THEN [browser EXCEPT !.seen = @ + 1,
                                  !.streamingMessage = Concat(@, ev.content)]
             ELSE IF ev.event = "done"
             THEN [browser EXCEPT !.seen = @ + 1, !.lastFailedMessage = FALSE,
                                  !.isSubmitting = FALSE,
                                  !.streamingMessage = EmptyText]
             ELSE [browser EXCEPT !.seen = @ + 1, !.error = TRUE,
                                  !.lastFailedMessage = TRUE,
                                  !.isSubmitting = FALSE]
    /\ UNCHANGED <<conversations, messages, clock, nextId, req, res, ai, provider, faults, gone, api, reverseUnordered>>

\* One user who sends, and retries or sends again once the send has ended.
NextBrowser ==
    \/ CreateConversation(OrdinaryTitles)
    \/ \E r \in Requests : SubmitMessage(r)
    \/ \E r \in Requests : Fetch(r, {JsString(Str("x", 1))})
    \/ \E r \in Requests : CreateResolves(r)
    \/ \E r \in Requests : CreateRejects(r, {ThrownError({})})
    \/ \E r \in Requests : StreamChunk(r)
    \/ \E r \in Requests : StreamThrows(r, {ThrownError({})})
    \/ \E r \in Requests : StreamEnds(r)
    \/ ReceiveEvent

SpecBrowser == Init /\ [][NextBrowser]_vars

---------------------------------------------------------------------------
(* What the claims speak of.                                               *)

Events(r) == res[r].events
IsTerminal(ev) == ev.event \in {"done", "error"}
IsChunk(ev) == ev.event = "chunk"
IsDone(ev) == ev.event = "done"
IsError(ev) == ev.event = "error"
TerminalEvents(r) == SelectSeq(Events(r), IsTerminal)
ChunkEvents(r) == SelectSeq(Events(r), IsChunk)
DoneEvents(r) == SelectSeq(Events(r), IsDone)
ErrorEvents(r) == SelectSeq(Events(r), IsError)
ChunkTexts(r) == [k \in 1..Len(ChunkEvents(r)) |-> ChunkEvents(r)[k].content]

\* the async function of the send has ended
Settled(r) == ai[r].pc \in {"returned", "rejected"}

\* the text fragments the provider's stream has yielded
Fragments(r) == provider[r].yielded

\* the outcome of the generation call: completed with a text, or failed
GenerationCompleted(r) == provider[r].ending = "exhausted" /\ Fragments(r) # <<>>
GenerationFailed(r) ==
    \/ provider[r].ending \in {"rejected", "threw"}
    \/ provider[r].ending = "exhausted" /\ Fragments(r) = <<>>

\* the stream of the send has delivered its terminal event
TerminalDelivered(r) == TerminalEvents(r) # <<>>

\* C1: a send in stream mode carries exactly one terminal event, it is the
\* last event written, the response is ended right after it, and nothing is
\* written after it, however the generation ends.
C1_ExactlyOneTerminalEventLast ==
    \A r \in Requests :
        res[r].sseHeaders =>
            /\ Len(TerminalEvents(r)) <= 1
            /\ \A k \in 1..Len(Events(r)) :
                  IsTerminal(Events(r)[k]) => k = Len(Events(r)) /\ res[r].ended
            /\ res[r].ended => Len(TerminalEvents(r)) = 1
            /\ ~res[r].writeAfterEnd
            /\ Settled(r) => Len(TerminalEvents(r)) = 1 /\ res[r].ended

\* C2: when the generation yields the fragments F1..Fn, n >= 1, and then
\* completes, the chunk events are F1..Fn in order and are followed by
\* exactly one done event, whose content is F1 + ... + Fn and whose
\* messageId is the placeholder's.
C2_ChunksThenOneDone ==
    \A r \in Requests :
        GenerationCompleted(r) =>
            /\ ChunkTexts(r) = Fragments(r)
            /\ Len(DoneEvents(r)) = 1
            /\ Len(ErrorEvents(r)) = 0
            /\ Events(r) = ChunkEvents(r) \o DoneEvents(r)
            /\ DoneEvents(r)[1].content = ConcatAll(Fragments(r))
            /\ DoneEvents(r)[1].messageId = req[r].assistantMessageId

\* C3: when the generation fails after zero or more fragments, the stream
\* of the send carries exactly one error event and no done event.
C3_FailureGivesOneErrorNoDone ==
    \A r \in Requests :
        GenerationFailed(r) => Len(ErrorEvents(r)) = 1 /\ Len(DoneEvents(r)) = 0

\* C5: when the UPDATE of the placeholder fails during finalization, the
\* client still gets exactly one terminal event, done when the generation
\* completed and error when it failed, and the response is ended.
C5_TerminalEventDespiteStorageFailure ==
    \A r \in Requests :
        provider[r].updateFailed =>
            /\ res[r].ended
            /\ Len(TerminalEvents(r)) = 1
            /\ GenerationCompleted(r) => Len(DoneEvents(r)) = 1
            /\ GenerationFailed(r) => Len(ErrorEvents(r)) = 1

\* the setup transaction of the send has committed
Committed(r) ==
    /\ req[r].state = "streaming"
    /\ req[r].userMessageId \in DOMAIN messages
    /\ req[r].assistantMessageId \in DOMAIN messages

\* a failure met after the response has switched to stream mode: of the
\* generation, or of an UPDATE of the finalization
FailedInStreamMode(r) == Settled(r) /\ (GenerationFailed(r) \/ provider[r].updateFailed)

\* C10: the SSE headers are set only after the setup transaction has
\* committed and the generation call starts only after that; a failure met
\* before is answered with a JSON error and an HTTP status, a failure met
\* after is reported as an error event and never as an HTTP status.
C10_StreamModeOnlyAfterCommit ==
    \A r \in Requests :
        /\ res[r].sseHeaders => Committed(r)
        /\ ai[r].pc # "none" => res[r].sseHeaders
        /\ req[r].state = "answered" =>
              /\ res[r].statusCode \in {400, 404, 500}
              /\ res[r].json # "" /\ res[r].ended
              /\ ~res[r].sseHeaders /\ res[r].events = <<>>
        /\ res[r].sseHeaders => res[r].statusCode = 200 /\ res[r].json = ""
        /\ FailedInStreamMode(r) => Len(ErrorEvents(r)) = 1

\* C4: a user row is created sent and never changes; an assistant row is
\* created sending with empty content, and its status changes only from
\* sending to sent or from sending to failed.
C4_StatusTransitions ==
    [][\A id \in DOMAIN messages' :
          /\ messages'[id].role \in {"user", "assistant"}
          /\ messages'[id].role = "user" => messages'[id].status = "sent"
          /\ IF id \notin DOMAIN messages
             THEN messages'[id].role = "assistant" =>
                      /\ messages'[id].status = "sending"
                      /\ messages'[id].content = EmptyText
             ELSE /\ messages'[id].role = messages[id].role
                  /\ messages[id].role = "user" => messages'[id] = messages[id]
                  /\ messages[id].role = "assistant" =>
                        \/ messages'[id].status = messages[id].status
                        \/ /\ messages[id].status = "sending"
                           /\ messages'[id].status \in {"sent", "failed"}]_vars

\* two sends have ended, one with its placeholder sent, one with it failed
C4_Witness ==
    \E a, b \in DOMAIN messages :
        /\ messages[a].role = "assistant" /\ messages[a].status = "sent"
        /\ messages[b].role = "assistant" /\ messages[b].status = "failed"

\* C6: a send whose setup committed has added exactly one user row, sent,
\* and exactly one assistant row to its conversation; once its stream has
\* delivered the terminal event the assistant row is sent (after done) or
\* failed (after error), never sending.
C6_OneExchangeFinalStatus ==
    /\ Cardinality(DOMAIN messages)
          = 2 * Cardinality({r \in Requests : req[r].state = "streaming"})
    /\ \A r \in Requests :
          req[r].state = "streaming" =>
              LET u == req[r].userMessageId
                  a == req[r].assistantMessageId
              IN  /\ u \in DOMAIN messages /\ a \in DOMAIN messages /\ u # a
                  /\ \A q \in Requests \ {r} :
                        {u, a} \cap {req[q].userMessageId, req[q].assistantMessageId} = {}
                  /\ messages[u].role = "user" /\ messages[u].status = "sent"
                  /\ messages[u].conversation_id = req[r].conversationId
                  /\ messages[u].content = req[r].trimmedContent
                  /\ messages[a].role = "assistant"
                  /\ messages[a].conversation_id = req[r].conversationId
                  /\ TerminalDelivered(r) =>
                        /\ messages[a].status \in {"sent", "failed"}
                        /\ DoneEvents(r) # <<>> => messages[a].status = "sent"
                        /\ ErrorEvents(r) # <<>> => messages[a].status = "failed"

\* a stream has delivered its terminal event after an UPDATE of the
\* finalization had failed, beside another send that is still streaming
C6_Witness ==
    \E r, q \in Requests :
        /\ TerminalDelivered(r) /\ provider[r].updateFailed
        /\ req[q].state = "streaming" /\ ~TerminalDelivered(q)

\* C7: the setup is all or nothing.  In every state the user row of a send
\* is in the store exactly when its placeholder is, and then the
\* conversation carries a timestamp no older than theirs; the step of a
\* handler whose setup meets a storage failure changes neither table and
\* answers 500 before any stream framing, and the step of one that commits
\* adds the two rows and the timestamp together.
C7_SetupAllOrNothing ==
    [][\A r \in Requests :
          LET u == req'[r].userMessageId
              a == req'[r].assistantMessageId
              c == req'[r].conversationId
          IN  /\ u # 0 =>
                    /\ u \in DOMAIN messages' <=> a \in DOMAIN messages'
                    /\ u \in DOMAIN messages' <=> req'[r].state = "streaming"
                    /\ u \in DOMAIN messages' =>
                          /\ c \in DOMAIN conversations'
                          /\ conversations'[c].updated_at >= messages'[u].created_at
              /\ req[r].state = "idle" /\ req'[r].state # "idle" =>
                    IF provider'[r].storage # "none"
                    THEN /\ conversations' = conversations
                         /\ messages' = messages
                         /\ res'[r].statusCode = 500 /\ res'[r].json # ""
                         /\ res'[r].ended /\ ~res'[r].sseHeaders
                         /\ res'[r].events = <<>>
                         /\ ai'[r].pc = "none"
                    ELSE u # 0 =>
                         /\ DOMAIN messages' = DOMAIN messages \cup {u, a}
                         /\ {u, a} \cap DOMAIN messages = {}
                         /\ conversations'[c].updated_at = messages'[u].created_at
                         /\ conversations'[c].updated_at >= conversations[c].updated_at]_vars

\* the third write of a setup has failed while another send, whose setup
\* committed, is streaming
C7_Witness ==
    \E r, q \in Requests :
        /\ provider[r].storage = "touch" /\ res[r].statusCode = 500
        /\ req[q].state = "streaming" /\ ai[q].pc = "streaming"

\* C8: a send rejected with 400 (content missing, no string, empty after
\* trimming, too long) or with 404 (no such conversation) changes neither
\* table, starts no generation call, sets no stream header, writes no event
\* and is answered with one JSON error body.
C8_RejectedSendHasNoEffect ==
    [][\A r \in Requests :
          req[r].state = "idle" /\ req'[r].state # "idle" =>
              LET content == req'[r].content
                  invalid ==
                      \/ content.type # "string"
                      \/ TextLen(Trim(content.text)) = 0
                      \/ TextLen(Trim(content.text)) > MaxContentLength
                  unknown ==
                      /\ ~invalid
                      /\ provider'[r].storage = "none"
                      /\ req'[r].conversationId \notin DOMAIN conversations
              IN  /\ invalid => res'[r].statusCode = 400
                  /\ unknown => res'[r].statusCode = 404
                  /\ res'[r].statusCode \in {400, 404} =>
                        /\ invalid \/ unknown
                        /\ conversations' = conversations
                        /\ messages' = messages
                        /\ ai' = ai
                        /\ ~res'[r].sseHeaders /\ res'[r].events = <<>>
                        /\ res'[r].json # "" /\ res'[r].ended
                        /\ req'[r].state = "answered"]_vars

\* one send has been rejected with 404 and nothing else, while the rows of
\* another send are in the store and its generation call is under way
C8_Witness ==
    \E r, q \in Requests :
        /\ res[r].statusCode = 404 /\ res[r].events = <<>> /\ ai[r].pc = "none"
        /\ Committed(q) /\ ai[q].pc = "streaming"

\* the text the handler measures
Submitted(r) == req[r].content.text
Accepted(r) == req[r].state # "idle" /\ res[r].statusCode # 400

\* C9 as stated: a text of the maximum length is accepted, a text of the
\* maximum length plus one is rejected, a text of whitespace only is
\* rejected, and a submitted text longer than the maximum is rejected also
\* when part of it is surrounding whitespace.
C9_SubmittedLengthBounded ==
    \A r \in Requests :
        req[r].state # "idle" /\ req[r].content.type = "string" =>
            /\ TextLen(Submitted(r)) > MaxContentLength => res[r].statusCode = 400
            /\ Trim(Submitted(r)) = EmptyText => res[r].statusCode = 400
            /\ Submitted(r) = Str("x", MaxContentLength) => Accepted(r)

\* C9 amended: the length that is bounded is the length after trimming.  A
\* text is rejected with 400 exactly when it is no string, is empty after
\* trimming, or is longer than the maximum after trimming.
C9_TrimmedLengthBounded ==
    \A r \in Requests :
        req[r].state # "idle" =>
            LET content == req[r].content
                n == TextLen(Trim(content.text))
            IN  /\ res[r].statusCode = 400 <=>
                      content.type # "string" \/ n = 0 \/ n > MaxContentLength
                /\ content.type = "string" /\ n = 0 =>
                      res[r].json \in {"Message content is required",
                                       "Message content cannot be empty"}
                /\ content.type = "string" /\ n = MaxContentLength + 1 =>
                      res[r].json = "Message too long (max 10000 characters)"
                /\ content.type = "string" /\ n = MaxContentLength => Accepted(r)

\* a text of the maximum length plus one, one character of it surrounding
\* whitespace, has been accepted and stored trimmed
C9_Witness ==
    \E r \in Requests :
        /\ TextLen(Submitted(r)) = MaxContentLength + 1
        /\ req[r].state = "streaming"
        /\ TextLen(messages[req[r].userMessageId].content) = MaxContentLength

---------------------------------------------------------------------------
(* The callbacks and the prompt.                                           *)

Calls(r) == provider[r].calls
IsTerminalCall(c) == c.callback \in {"onError", "onDone"}
IsOnError(c) == c.callback = "onError"
IsOnDone(c) == c.callback = "onDone"
TerminalCalls(r) == SelectSeq(Calls(r), IsTerminalCall)
OnErrorCalls(r) == SelectSeq(Calls(r), IsOnError)
OnDoneCalls(r) == SelectSeq(Calls(r), IsOnDone)
UserFacingMessages == {MsgConfiguration, MsgBusy, MsgQuota, MsgUnavailable}
Placeholder(r) == messages[req[r].assistantMessageId]

\* C11: when the generation call of a send fails, the placeholder ends
\* failed with a non-empty error_message and the client receives one error
\* event that carries a user-facing message: the busy message for a failure
\* whose text says rate limit, and never the provider's text.
C11_FailureStoredAndTranslated ==
    \A r \in Requests :
        Settled(r) /\ provider[r].ending \in {"rejected", "threw"} =>
            /\ Placeholder(r).status = "failed"
            /\ Placeholder(r).error_message \in UserFacingMessages
            /\ Len(ErrorEvents(r)) = 1
            /\ ErrorEvents(r)[1].error \in UserFacingMessages
            /\ provider[r].error = ThrownError({"rate limit"}) =>
                  ErrorEvents(r)[1].error = MsgBusy

\* C12: an invocation of createAIStream that is never cancelled calls
\* exactly one of onError and onDone, once, and no callback after it, also
\* when a callback throws; and its async function never rejects.
C12_ExactlyOneTerminalCallback ==
    \A r \in Requests :
        ~ai[r].cancelled =>
            /\ ai[r].pc # "rejected"
            /\ Len(TerminalCalls(r)) <= 1
            /\ Settled(r) => Len(TerminalCalls(r)) = 1
            /\ \A k \in 1..Len(Calls(r)) :
                  IsTerminalCall(Calls(r)[k]) => k = Len(Calls(r))

\* C14: when the stream is exhausted and nothing was accumulated, onDone is
\* not called, onError is called once with the temporarily-unavailable
\* message, the placeholder ends failed and the client gets an error event
\* and no done event.
C14_EmptyResponseIsAFailure ==
    \A r \in Requests :
        Settled(r) /\ provider[r].ending = "exhausted" /\ Fragments(r) = <<>> =>
            /\ OnDoneCalls(r) = <<>>
            /\ OnErrorCalls(r) = <<OnErrorCall(MsgUnavailable)>>
            /\ Placeholder(r).status = "failed"
            /\ ErrorEvents(r) = <<ErrorEvent(MsgUnavailable)>>
            /\ DoneEvents(r) = <<>>

\* the messages of a conversation other than the two rows of the send r
EarlierIds(msgs, conversationId, userMessageId, assistantMessageId) ==
    {i \in DOMAIN msgs : /\ msgs[i].conversation_id = conversationId
                         /\ i \notin {userMessageId, assistantMessageId}}

\* C16: the prompt of a send is the system instruction, then the messages
\* the conversation held before the send in creation order, then the new
\* user message, which occurs in it once.
C16_PromptHasNewMessageOnce ==
    [][\A r \in Requests :
          req[r].state = "idle" /\ req'[r].state = "streaming" =>
              LET prompt == ai'[r].messages
                  earlier == EarlierIds(messages', req'[r].conversationId,
                                        req'[r].userMessageId, req'[r].assistantMessageId)
                  n == Len(prompt)
              IN  /\ n = Cardinality(earlier) + 2
                  /\ prompt[1] = [role |-> "system", content |-> DefaultInstructions]
                  /\ prompt[n] = [role |-> "user", content |-> req'[r].trimmedContent]
                  /\ \E order \in OrdersByCreatedAt(messages', earlier) :
                        SubSeq(prompt, 2, n - 1) = HistoryOf(messages', order)]_vars

\* C17: a step that changes a message row is the finalization of one send
\* and changes the placeholder of that send only; the rows of every other
\* send stay as they are.
C17_FinalizationTouchesOwnPlaceholder ==
    [][\A id \in DOMAIN messages :
          messages'[id] # messages[id] =>
              \E r \in Requests :
                  /\ id = req[r].assistantMessageId
                  /\ ~Settled(r) /\ Settled(r)'
                  /\ \A other \in DOMAIN messages \ {id} : messages'[other] = messages[other]]_vars

\* two sends to one conversation are streaming, one has been finalized as
\* sent and the placeholder of the other is still sending
C17_Witness ==
    \E r, q \in Requests :
        /\ r # q /\ Committed(r) /\ Committed(q)
        /\ req[r].conversationId = req[q].conversationId
        /\ Placeholder(r).status = "sent" /\ ai[q].pc = "streaming"
        /\ Placeholder(q).status = "sending" /\ provider[q].yielded # <<>>

\* C13: once the cancel handle has been invoked, createAIStream makes no
\* call of onChunk, onError or onDone, so nothing more is written or stored
\* for the send; and invoking the handle, the first time or again, before
\* or after a terminal callback, changes nothing but the flag.
C13_NoCallbackAfterCancel ==
    [][\A r \in Requests :
          /\ ai[r].cancelled =>
                /\ Calls(r)' = Calls(r)
                /\ res'[r] = res[r]
                /\ messages' = messages
                /\ ai'[r].cancelled
          /\ ai'[r].cancelled /\ ~ai[r].cancelled =>
                /\ Calls(r)' = Calls(r)
                /\ res'[r] = res[r]
                /\ messages' = messages
                /\ ai'[r].pc = ai[r].pc]_vars

\* the handle was invoked between two fragments; the stream then failed and
\* the invocation ended without a terminal callback
C13_Witness ==
    \E r \in Requests :
        /\ ai[r].cancelled /\ ai[r].pc = "returned"
        /\ provider[r].ending = "threw"
        /\ Len(Calls(r)) = 1 /\ TerminalCalls(r) = <<>>

\* the text of the failure says this
Says(r, marker) == provider[r].error.isError /\ marker \in provider[r].error.includes

\* the call of onError made for the failure of the generation
FailureCall(r) ==
    /\ provider[r].ending \in {"rejected", "threw"}
    /\ OnErrorCalls(r) # <<>>

\* C15 as stated: the message passed to onError follows from the failure,
\* and when the failure matches more than one rule the most specific one,
\* that of the longest marker, decides.
C15_MostSpecificRuleDecides ==
    \A r \in Requests :
        FailureCall(r) /\ provider[r].error.isError =>
            OnErrorCalls(r)[1].arg =
                IF Says(r, "insufficient_quota") THEN MsgQuota
                ELSE IF Says(r, "rate limit") THEN MsgBusy
                ELSE IF Says(r, "API key") THEN MsgConfiguration
                ELSE MsgUnavailable

\* C15 amended: the message passed to onError follows from the failure, and
\* when the failure matches more than one rule the first rule in the order
\* key, rate limit, quota decides; a thrown value that is no Error, and the
\* empty response, give the temporarily-unavailable message.
C15_FirstRuleDecides ==
    \A r \in Requests :
        /\ FailureCall(r) =>
              /\ Len(OnErrorCalls(r)) = 1
              /\ Says(r, "API key") => OnErrorCalls(r)[1].arg = MsgConfiguration
              /\ ~Says(r, "API key") /\ Says(r, "rate limit") =>
                    OnErrorCalls(r)[1].arg = MsgBusy
              /\ ~Says(r, "API key") /\ ~Says(r, "rate limit")
                    /\ Says(r, "insufficient_quota") =>
                    OnErrorCalls(r)[1].arg = MsgQuota
              /\ (\A marker \in Markers : ~Says(r, marker)) =>
                    OnErrorCalls(r)[1].arg = MsgUnavailable
        /\ provider[r].ending = "exhausted" /\ OnErrorCalls(r) # <<>> =>
              OnErrorCalls(r)[1].arg = MsgUnavailable

\* a failure whose text says both API key and insufficient_quota has been
\* passed on with the configuration message
C15_Witness ==
    \E r \in Requests :
        /\ FailureCall(r)
        /\ Says(r, "API key") /\ Says(r, "insufficient_quota")
        /\ OnErrorCalls(r)[1].arg = MsgConfiguration

---------------------------------------------------------------------------
(* The requests on a conversation.                                         *)

\* the step is the answer to a PATCH or DELETE request
Answered(op) == api'.reply # api.reply /\ api'.reply.op = op
RowsOf(msgs, id) == {i \in DOMAIN msgs : msgs[i].conversation_id = id}

\* C18: after DELETE /chats/:id on an existing conversation no message row
\* refers to that id, and in every state every message row refers to a
\* conversation that exists.
C18_NoOrphanMessages ==
    [][/\ \A i \in DOMAIN messages' :
             messages'[i].conversation_id \in DOMAIN conversations'
       /\ Answered("DELETE") /\ api'.reply.existed =>
             /\ api'.reply.id \notin DOMAIN conversations'
             /\ RowsOf(messages', api'.reply.id) = {}]_vars

\* a conversation was deleted while its send was streaming: the two rows of
\* the send are gone with it
C18_Witness ==
    /\ api.reply.op = "DELETE" /\ api.reply.existed
    /\ \E r \in Requests :
          /\ req[r].state = "streaming" /\ ai[r].pc = "streaming"
          /\ req[r].conversationId = api.reply.id
          /\ req[r].userMessageId \notin DOMAIN messages
          /\ req[r].assistantMessageId \notin DOMAIN messages

\* C19: PATCH and DELETE on an identifier that names no conversation answer
\* 404 and change neither table; on a conversation that exists they answer
\* with its identifier.
C19_UnknownConversationIs404 ==
    [][\A op \in {"PATCH", "DELETE"} :
          Answered(op) =>
              IF api'.reply.existed
              THEN /\ api'.reply.statusCode = 200
                   /\ api'.reply.body.type = "string"
              ELSE /\ api'.reply.statusCode = 404
                   /\ conversations' = conversations
                   /\ messages' = messages]_vars

\* the step is the answer to a GET messages request that follows another
\* one on the same conversation, which was not deleted since, with no send
\* issued in between
ReadAgain ==
    /\ api'.read # api.read
    /\ api.read.id # 0 /\ api'.read.id = api.read.id
    /\ api'.read.issued = api.read.issued
    /\ api'.read.gone = api.read.gone

---------------------------------------------------------------------------
\* the place of row id in the array a read returned (0: not in it)
PositionIn(rows, id) ==
    IF \E k \in 1..Len(rows) : rows[k].id = id
    THEN CHOOSE k \in 1..Len(rows) : rows[k].id = id
    ELSE 0

---------------------------------------------------------------------------
\* C22: in every reachable state a message row has a non-null error text if
\* and only if its status is failed.
C22_ErrorTextIffFailed ==
    \A id \in DOMAIN messages :
        messages[id].error_message # "null" <=> messages[id].status = "failed"

\* one send has failed and its row holds the reason, beside a send that
\* succeeded, a user row and nothing else
C22_Witness ==
    \E r, q \in Requests :
        /\ Committed(r) /\ Committed(q)
        /\ Placeholder(r).status = "failed"
        /\ Placeholder(r).error_message \in UserFacingMessages
        /\ Placeholder(q).status = "sent"
        /\ Placeholder(q).error_message = "null"

---------------------------------------------------------------------------
\* the status the placeholder of send r has, "none" before the setup and
\* once the row is deleted
StatusOf(msgs, id) == IF id \in DOMAIN msgs THEN msgs[id].status ELSE "none"

\* the terminal event that tells of a status
EventOf(status) == IF status = "sent" THEN "done" ELSE "error"

\* C23: whenever the placeholder of a send leaves status sending, to sent or
\* to failed, the same step writes on that send's stream one terminal event
\* matching the new status (done for sent, error for failed) and ends the
\* response: no row is finalized without its terminal event.
C23_FinalizedRowHasItsEvent ==
    [][\A r \in Requests :
          LET id == req[r].assistantMessageId IN
          /\ StatusOf(messages, id) = "sending"
          /\ StatusOf(messages', id) \in {"sent", "failed"}
          => /\ Len(res'[r].events) = Len(res[r].events) + 1
             /\ res'[r].events[Len(res'[r].events)].event = EventOf(StatusOf(messages', id))
             /\ ~\E k \in 1..Len(res[r].events) : IsTerminal(res[r].events[k])
             /\ res'[r].ended]_vars

\* a reply of two fragments has been recorded as sent and its done event
\* closes the stream, while another send has been recorded as failed
C23_Witness ==
    \E r, q \in Requests :
        /\ Committed(r) /\ Committed(q)
        /\ Placeholder(r).status = "sent"
        /\ Len(ChunkEvents(r)) = 2 /\ Len(DoneEvents(r)) = 1
        /\ Placeholder(q).status = "failed"
        /\ Len(ErrorEvents(q)) = 1

---------------------------------------------------------------------------
\* the placeholder of send r has been finalized
PlaceholderFinalized(r) ==
    StatusOf(messages, req[r].assistantMessageId) \in {"sent", "failed"}

---------------------------------------------------------------------------
\* the fragments handed to onChunk so far
OnChunkCalls(r) == SelectSeq(Calls(r), LAMBDA c : c.callback = "onChunk")

\* C25 as stated: once the client of a streaming send has disconnected, the
\* cancel handle of that send has been invoked and no further fragment of
\* it is forwarded.
C25_DisconnectStopsForwarding ==
    [][\A r \in Requests :
          res[r].closed => /\ ai[r].cancelled
                           /\ provider'[r].calls = provider[r].calls]_vars

\* C25: a disconnect changes nothing of the generation client, cancelled
\* least of all; while the handle has not been invoked, every later
\* fragment is still handed to onChunk and written to the closed
\* connection; and a cancel that comes after the success or failure
\* callback leaves every message row as it is.
C25_DisconnectIsNotPropagated ==
    [][\A r \in Requests :
          /\ ~res[r].closed /\ res'[r].closed => ai' = ai
          /\ res[r].closed /\ ~ai[r].cancelled
                /\ Len(provider'[r].yielded) > Len(provider[r].yielded)
             => /\ Len(OnChunkCalls(r))' = Len(OnChunkCalls(r)) + 1
                /\ res'[r].lost = res[r].lost + 1
          /\ ~ai[r].cancelled /\ ai'[r].cancelled /\ TerminalCalls(r) # <<>>
             => messages' = messages]_vars

\* the client left, a fragment and the done event were written after that,
\* and the handle was invoked once the reply had been recorded
C25_Witness ==
    \E r \in Requests :
        /\ Committed(r)
        /\ res[r].closed /\ res[r].lost = 2
        /\ Len(OnChunkCalls(r)) = 1 /\ Len(OnDoneCalls(r)) = 1
        /\ ai[r].cancelled
        /\ Placeholder(r).status = "sent"

---------------------------------------------------------------------------
\* the rows a step changes
ChangedRows == {id \in DOMAIN messages : id \notin DOMAIN messages' \/ messages'[id] # messages[id]}

\* C26: an existing message row is changed only by the finalization of the
\* send that created it.  Creating, listing, reading and retitling a
\* conversation, reading messages and the setup of any send change no
\* existing row; a finalization changes its own placeholder and no other
\* row, and leaves role, conversation_id and created_at of it as they were.
C26_RowsChangeOnlyByOwnFinalization ==
    [][ChangedRows # {} =>
          \E r \in Requests :
              LET id == req[r].assistantMessageId IN
              /\ ~Settled(r) /\ Settled(r)'
              /\ ChangedRows = {id}
              /\ id \in DOMAIN messages'
              /\ messages'[id].role = messages[id].role
              /\ messages'[id].conversation_id = messages[id].conversation_id
              /\ messages'[id].created_at = messages[id].created_at]_vars

\* a send has been set up beside the rows of an earlier one, whose
\* placeholder was and is sending, and has been finalized as sent; its
\* conversation has been retitled, its messages read and the list asked for
C26_Witness ==
    \E r \in Requests :
        /\ Committed(r)
        /\ Placeholder(r).status = "sent"
        /\ \E id \in DOMAIN messages :
              /\ id < req[r].userMessageId
              /\ messages[id].conversation_id = req[r].conversationId
              /\ messages[id].status = "sending"
        /\ Len(api.read.rows) = 4 /\ api.read.finalized = 0
        /\ api.reply.op = "LIST"
        /\ conversations[req[r].conversationId].title = Str("t", 1)

---------------------------------------------------------------------------
\* the conversation of send r was deleted while the send was streaming, and
\* the send has run its finalization since
FinalizedAfterDelete(r) ==
    /\ req[r].state = "streaming"
    /\ req[r].conversationId \in gone
    /\ Settled(r)

\* C27: when a conversation is deleted while a send on it is streaming, the
\* later finalization of the send inserts no message row and recreates no
\* conversation row, so that the store holds no row for the deleted
\* conversation, and the stream of the send still gets exactly one terminal
\* event.
C27_FinalizationAfterDelete ==
    \A r \in Requests :
        FinalizedAfterDelete(r) =>
            /\ req[r].conversationId \notin DOMAIN conversations
            /\ RowsOf(messages, req[r].conversationId) = {}
            /\ Len(TerminalEvents(r)) = 1

---------------------------------------------------------------------------
\* the texts of the chunk events the browser has received for its send
ReceivedChunks ==
    IF browser.send = 0 THEN <<>>
    ELSE LET seen == SubSeq(res[browser.send].events, 1, browser.seen)
             chunks == SelectSeq(seen, IsChunk)
         IN  [k \in 1..Len(chunks) |-> chunks[k].content]

\* C28: the in-progress assistant text the browser shows is the
\* concatenation of the chunk events received so far for the current send
\* only, and it is empty whenever no send is in progress: after an error
\* event and a retry it holds no fragment of the failed send.
C28_StreamingMessageIsCurrentSend ==
    browser.streamingMessage =
        IF browser.isSubmitting THEN ConcatAll(ReceivedChunks) ELSE EmptyText

====
